---- MODULE Spec2Model ----
(***************************************************************************)
(* Model of ddcpy: the M1DDCControl wrapper around the m1ddc utility       *)
(* (src/m1ddc/m1ddc.py) and the control script monitor_input_switch.py.    *)
(*                                                                         *)
(* The m1ddc utility and the monitors are the environment: every utility  *)
(* invocation draws its response from a small set.  Every invocation is    *)
(* appended to the history `cmds`, so that properties about what reaches   *)
(* the utility are state predicates.                                       *)
(***************************************************************************)
EXTENDS Integers, Sequences, FiniteSets, TLC

VARIABLES
    mode,             \* "run": one execution of main(); "api": direct library calls
    pc,               \* position of main()
    target,           \* the command line's target_machine argument
    displays,         \* main's `displays`; api mode: what list_displays returned
    display_settings, \* main's `display_settings`
    i,                \* index of the for-loops over displays (1-based)
    checks,           \* check_display_readiness: checks
    max_contrast,     \* check_display_readiness: max_contrast
    cmds,             \* history of utility invocations (subprocess.run calls)
    exit_code,        \* process exit status; -1 while running
    err,              \* what ended the run
    call              \* api mode: the last library call and its outcome

vars == <<mode, pc, target, displays, display_settings, i, checks,
          max_contrast, cmds, exit_code, err, call>>

----------------------------------------------------------------------------
(* Bounds of the model *)

\* longest `display list` output, in lines
MaxLines == 2

\* the model's numeric range for requested values and deltas
MaxValue == 2

----------------------------------------------------------------------------
(* Program constants *)

INPUTS == [hdmi |-> 17, usbc |-> 49]

MACHINE_CONFS_WithSwap ==
    [work |-> [input |-> INPUTS.hdmi, contrast |-> 75],
     mac  |-> [input |-> INPUTS.usbc, contrast |-> 75],
     swap |-> [input |-> INPUTS.usbc, contrast |-> 75]]

MACHINE_CONFS ==
    [work |-> [input |-> INPUTS.hdmi, contrast |-> 75],
     mac  |-> [input |-> INPUTS.usbc, contrast |-> 75]]

\* argparse: choices=["work", "mac", "swap"]
Choices == {"work", "mac", "swap"}

\* the ceiling check_display_readiness compares `checks` with
MaxChecks == 10

----------------------------------------------------------------------------
(* The environment: command lines and what the utility answers *)

\* "tv" stands for any name outside argparse's choices
Targets == {"work", "mac", "swap", "tv"}

\* _run_command's return value: None when the utility exits non-zero,
\* otherwise its stripped stdout, which is a decimal number or other text
\* (the empty string included).
None == [k |-> "none", n |-> 0]
Text == [k |-> "text", n |-> 0]
Num(v) == [k |-> "num", n |-> v]

\* answers to `max contrast` in a run: not ready, below and above the
\* profiles' contrast
RunMaxValues == {0, 50, 100}
RunMaxResponses == {None, Text} \cup {Num(v) : v \in RunMaxValues}

\* answers to set / chg: failure or (empty) output
AckResponses == {None, Text}

\* Text is modelled as the sequence of its characters.
T_Dell == <<"D", "e", "l", "l">>
T_LG == <<"L", "G">>
T_LG27 == <<"L", "G", " ", "2", "7">>
T_DISP1 == <<"D", "I", "S", "P", "-", "1">>
T_DISP2 == <<"D", "I", "S", "P", "-", "2">>
T_Banner == <<"D", "i", "s", "p", "l", "a", "y", "s", ":">>

\* the text of a line `[<digits>]<gap><name><gap>(<id>)`
DisplayText(digits, gap1, name, gap2, id) ==
    <<"[">> \o digits \o <<"]">> \o gap1 \o name \o gap2 \o <<"(">> \o id \o <<")">>

\* a line the utility printed for a display: its text, and the display it
\* stands for
DisplayLine(text, number, name, id) ==
    [text |-> text, m |-> TRUE, number |-> number, name |-> name, id |-> id]

\* a line that stands for no display (a banner, a diagnostic, a blank line)
OtherLine(text) ==
    [text |-> text, m |-> FALSE, number |-> 0, name |-> <<>>, id |-> <<>>]

\* the display argument of direct library calls
DisplayIds == {T_DISP1, T_DISP2}

Line1 == DisplayLine(DisplayText(<<"1">>, <<" ">>, T_Dell, <<" ">>, T_DISP1), 1, T_Dell, T_DISP1)
Line2 == DisplayLine(DisplayText(<<"2">>, <<" ">>, T_LG, <<" ">>, T_DISP2), 2, T_LG, T_DISP2)

\* lines of `display list` output in a run
Lines == {Line1, Line2, OtherLine(T_Banner)}

\* lines of `display list` output handed to list_displays directly: leading
\* zeros, a name with a blank, runs of blanks, an indented line with a
\* carriage return, a name with parentheses, an id with underscore and
\* digits; and lines that are no display line: blank, missing blank after
\* the number, no digits, a character no id has, text after the id
ListLines ==
    { Line1,
      DisplayLine(DisplayText(<<"0", "2">>, <<" ", " ">>, T_LG27, <<" ", "\t">>, T_DISP2),
                  2, T_LG27, T_DISP2),
      DisplayLine(<<" ">> \o DisplayText(<<"1", "0">>, <<" ">>, T_LG, <<" ">>, <<"a", "_", "9">>)
                  \o <<"\r">>, 10, T_LG, <<"a", "_", "9">>),
      DisplayLine(DisplayText(<<"3">>, <<" ">>, T_LG \o <<" ", "(", "4", "K", ")">>, <<" ">>, T_DISP1),
                  3, T_LG \o <<" ", "(", "4", "K", ")">>, T_DISP1),
      OtherLine(T_Banner),
      OtherLine(<<>>),
      OtherLine(DisplayText(<<"1">>, <<>>, T_Dell, <<" ">>, T_DISP1)),
      OtherLine(DisplayText(<<>>, <<" ">>, T_Dell, <<" ">>, T_DISP1)),
      OtherLine(DisplayText(<<"1">>, <<" ">>, T_Dell, <<" ">>, <<"A", ".", "B">>)),
      OtherLine(DisplayText(<<"1">>, <<" ">>, T_Dell, <<" ">>, T_DISP1) \o <<" ", "x">>) }

SeqsUpTo(S, n) == UNION { [1..k -> S] : k \in 0..n }

\* raw outputs of `display list`: lines joined by "\n"; <<>> is the empty string
RawOutputs == SeqsUpTo(Lines, MaxLines)
ListOutputs == SeqsUpTo(ListLines, MaxLines)

\* a utility invocation: [self.ddpath, "display", disp, verb, prop, val],
\* where an integer value is `val` and a literal token (on, off) is `tok`;
\* its answer (`out`: the lines `display list` printed), and (for reading
\* the history) the function that issued it
Cmd(verb, disp, prop, val, resp, by) ==
    [verb |-> verb, disp |-> disp, prop |-> prop, val |-> val,
     tok |-> "", resp |-> resp, by |-> by, out |-> <<>>]

----------------------------------------------------------------------------
(* m1ddc.py *)

\* _run_command: CalledProcessError is caught, printed, and None returned
Failed(resp) == resp.k = "none"

PyIntLenient(resp) ==
    IF resp.k = "num" THEN [err |-> "none", n |-> resp.n] ELSE [err |-> "none", n |-> 0]

\* int(result) in _get_max
PyInt(resp) ==
    CASE resp.k = "num"  -> [err |-> "none", n |-> resp.n]
      [] resp.k = "text" -> [err |-> "ValueError", n |-> 0]
      [] resp.k = "none" -> [err |-> "TypeError", n |-> 0]

\* character classes of the pattern: \d, \s, \w and [\w-]
Digits == {"0", "1", "2", "3", "4", "5", "6", "7", "8", "9"}
Whitespace == {" ", "\t", "\r"}
Letters ==
    {"A", "B", "C", "D", "E", "F", "G", "H", "I", "J", "K", "L", "M", "N", "O", "P",
     "Q", "R", "S", "T", "U", "V", "W", "X", "Y", "Z",
     "a", "b", "c", "d", "e", "f", "g", "h", "i", "j", "k", "l", "m", "n", "o", "p",
     "q", "r", "s", "t", "u", "v", "w", "x", "y", "z"}
WordChars == Digits \cup Letters \cup {"_"}
IdChars == WordChars \cup {"-"}

\* str.strip(): leading and trailing whitespace removed
RECURSIVE lstrip(_)
lstrip(s) == IF s # <<>> /\ Head(s) \in Whitespace THEN lstrip(Tail(s)) ELSE s

RECURSIVE rstrip(_)
rstrip(s) ==
    IF s # <<>> /\ s[Len(s)] \in Whitespace THEN rstrip(SubSeq(s, 1, Len(s) - 1)) ELSE s

strip(s) == rstrip(lstrip(s))

\* int() of a string of decimal digits
DigitValue(c) ==
    CASE c = "0" -> 0 [] c = "1" -> 1 [] c = "2" -> 2 [] c = "3" -> 3 [] c = "4" -> 4
      [] c = "5" -> 5 [] c = "6" -> 6 [] c = "7" -> 7 [] c = "8" -> 8 [] c = "9" -> 9

RECURSIVE DigitsToInt(_)
DigitsToInt(ds) ==
    IF ds = <<>> THEN 0
    ELSE 10 * DigitsToInt(SubSeq(ds, 1, Len(ds) - 1)) + DigitValue(ds[Len(ds)])

SetMax(S) == CHOOSE x \in S : \A y \in S : y <= x
SetMin(S) == CHOOSE x \in S : \A y \in S : x <= y

\* re.match(r"^\[(\d+)\]\s+(.+?)\s+\(([\w-]+)\)$", s): with e the last digit,
\* w the end of the first \s+, p the end of the name and q the place of the
\* opening parenthesis, the match is the one backtracking finds first:
\* \d+ and \s+ as long as possible, then .+? as short as possible
re_match(s) ==
    LET n == Len(s)
        AllIn(a, b, S) == \A k \in a .. b : s[k] \in S
        TailAt(p, q) ==
            /\ AllIn(p + 1, q - 1, Whitespace)
            /\ s[q] = "("
            /\ q + 1 <= n - 1 /\ AllIn(q + 1, n - 1, IdChars)
            /\ s[n] = ")"
        Qs(p) == {q \in p + 2 .. n : TailAt(p, q)}
        Ps(w) == {p \in w + 1 .. n : Qs(p) # {}}
        Ws(e) == {w \in e + 2 .. n : AllIn(e + 2, w, Whitespace) /\ Ps(w) # {}}
        Es == {e \in 2 .. n - 1 : AllIn(2, e, Digits) /\ s[e + 1] = "]" /\ Ws(e) # {}}
    IN  IF n = 0 \/ s[1] # "[" \/ Es = {}
        THEN [ok |-> FALSE, groups |-> <<>>]
        ELSE LET e == SetMax(Es)
                 w == SetMax(Ws(e))
                 p == SetMin(Ps(w))
                 q == SetMax(Qs(p))
             IN  [ok |-> TRUE,
                  groups |-> <<SubSeq(s, 2, e), SubSeq(s, w + 1, p), SubSeq(s, q + 1, n - 1)>>]

RECURSIVE _parse_display_list_nostrip(_)
_parse_display_list_nostrip(lines) ==
    IF lines = <<>> THEN <<>>
    ELSE LET match == re_match(Head(lines).text)
             rest == _parse_display_list_nostrip(Tail(lines))
         IN  IF match.ok
             THEN <<[number |-> DigitsToInt(match.groups[1]),
                     name |-> match.groups[2],
                     id |-> match.groups[3]]>> \o rest
             ELSE rest

\* _parse_display_list: for each line of the output, the pattern matched
\* against line.strip(); one record per match, in order
RECURSIVE _parse_display_list(_)
_parse_display_list(lines) ==
    IF lines = <<>> THEN <<>>
    ELSE LET match == re_match(strip(Head(lines).text))
             rest == _parse_display_list(Tail(lines))
         IN  IF match.ok
             THEN <<[number |-> DigitsToInt(match.groups[1]),
                     name |-> match.groups[2],
                     id |-> match.groups[3]]>> \o rest
             ELSE rest

\* `if raw_output:` is false for None and for the empty string, which is
\* what stdout.strip() leaves of output that holds only whitespace
Truthy(resp, raw) ==
    ~Failed(resp) /\ \E j \in 1 .. Len(raw) : strip(raw[j].text) # <<>>

list_displays(resp, raw) ==
    IF Truthy(resp, raw) THEN _parse_display_list(raw) ELSE <<>>

\* _get: `display <id> get <property>`; returns _run_command's value as is
_get(display, property_name, resp, by) ==
    [cmd |-> Cmd("get", display, property_name, 0, resp, by), value |-> resp]

\* _get_max: `display <id> max <property>`, then int(result)
_get_max(display, property_name, resp, by) ==
    [cmd |-> Cmd("max", display, property_name, 0, resp, by), value |-> PyInt(resp)]

\* _set: `display <id> set <property> <value>`
_set(display, property_name, value, resp, by) ==
    Cmd("set", display, property_name, value, resp, by)

\* _set with a str for value: str(value) is the token itself
_set_token(display, property_name, token, resp, by) ==
    [Cmd("set", display, property_name, 0, resp, by) EXCEPT !.tok = token]

\* _change: `display <id> chg <property> <value>`
_change(display, property_name, value, resp, by) ==
    Cmd("chg", display, property_name, value, resp, by)

\* the outcome of a library call: the invocations it made and how it ended:
\* "returned", "logged" (exception caught and printed, None returned), or
\* the exception it raised.  "OutOfRange" is the ValueError raised by a
\* range check, "ValueError" the one raised by int().
Outcome(issued, result) == [issued |-> issued, result |-> result]

set_luminance_strict(display, value, maxresp, setresp, by) ==
    LET m == _get_max(display, "luminance", maxresp, by)
    IN  IF m.value.err # "none" THEN Outcome(<<m.cmd>>, m.value.err)
        ELSE IF value < 0 \/ value >= m.value.n
             THEN Outcome(<<m.cmd>>, "OutOfRange")
             ELSE Outcome(<<m.cmd, _set(display, "luminance", value, setresp, by)>>,
                          "returned")

\* set_luminance
set_luminance(display, value, maxresp, setresp, by) ==
    LET m == _get_max(display, "luminance", maxresp, by)
    IN  IF m.value.err # "none" THEN Outcome(<<m.cmd>>, m.value.err)
        ELSE IF value < 0 \/ value > m.value.n
             THEN Outcome(<<m.cmd>>, "OutOfRange")
             ELSE Outcome(<<m.cmd, _set(display, "luminance", value, setresp, by)>>,
                          "returned")

set_contrast_swallowing(display, value, maxresp, setresp, by) ==
    LET m == _get_max(display, "contrast", maxresp, by)
    IN  IF m.value.err # "none" THEN Outcome(<<m.cmd>>, m.value.err)
        ELSE IF value < 0 \/ value > m.value.n
             THEN Outcome(<<m.cmd>>, "returned")
             ELSE Outcome(<<m.cmd, _set(display, "contrast", value, setresp, by)>>,
                          "returned")

\* set_contrast
set_contrast(display, value, maxresp, setresp, by) ==
    LET m == _get_max(display, "contrast", maxresp, by)
    IN  IF m.value.err # "none" THEN Outcome(<<m.cmd>>, m.value.err)
        ELSE IF value < 0 \/ value > m.value.n
             THEN Outcome(<<m.cmd>>, "OutOfRange")
             ELSE Outcome(<<m.cmd, _set(display, "contrast", value, setresp, by)>>,
                          "returned")

\* set_volume
set_volume(display, value, maxresp, setresp, by) ==
    LET m == _get_max(display, "volume", maxresp, by)
    IN  IF m.value.err # "none" THEN Outcome(<<m.cmd>>, m.value.err)
        ELSE IF value < 0 \/ value > m.value.n
             THEN Outcome(<<m.cmd>>, "OutOfRange")
             ELSE Outcome(<<m.cmd, _set(display, "volume", value, setresp, by)>>,
                          "returned")

\* set_input: no bound check
set_input(display, value, setresp, by) ==
    Outcome(<<_set(display, "input", value, setresp, by)>>, "returned")

set_mute_inverted(display, state, setresp, by) ==
    Outcome(<<_set_token(display, "mute", IF state THEN "off" ELSE "on", setresp, by)>>,
            "returned")

\* set_mute: mute_state = "on" if state else "off"; no bound check
set_mute(display, state, setresp, by) ==
    Outcome(<<_set_token(display, "mute", IF state THEN "on" ELSE "off", setresp, by)>>,
            "returned")

\* the Python type of what _run_command returned: stdout is a str
PyType(resp) == IF resp.k = "none" THEN "NoneType" ELSE "str"

\* `value + current_value` with value an int: defined for an int operand only
PyAdd(value, current) ==
    IF PyType(current) = "int"
    THEN [err |-> "none", n |-> value + current.n]
    ELSE [err |-> "TypeError", n |-> 0]

\* the body shared by change_luminance, change_contrast and change_volume:
\* get, max (outside the try), then inside `try ... except ValueError` the
\* sum, the range check and _change
change_property(display, property_name, value, getresp, maxresp, chgresp, by) ==
    LET g == _get(display, property_name, getresp, by)
        m == _get_max(display, property_name, maxresp, by)
        s == PyAdd(value, g.value)
    IN  IF m.value.err # "none" THEN Outcome(<<g.cmd, m.cmd>>, m.value.err)
        ELSE IF s.err # "none" THEN Outcome(<<g.cmd, m.cmd>>, s.err)
        ELSE IF s.n < 0 \/ s.n > m.value.n
             THEN Outcome(<<g.cmd, m.cmd>>, "logged")
             ELSE Outcome(<<g.cmd, m.cmd,
                            _change(display, property_name, value, chgresp, by)>>,
                          "returned")

change_luminance(display, value, getresp, maxresp, chgresp, by) ==
    change_property(display, "luminance", value, getresp, maxresp, chgresp, by)

change_contrast(display, value, getresp, maxresp, chgresp, by) ==
    change_property(display, "contrast", value, getresp, maxresp, chgresp, by)

change_volume(display, value, getresp, maxresp, chgresp, by) ==
    change_property(display, "volume", value, getresp, maxresp, chgresp, by)

----------------------------------------------------------------------------
(* monitor_input_switch.py *)

\* sys.exit(code) or an uncaught exception (exit status 1) ends the run
Exit(code, why) ==
    /\ pc' = "done"
    /\ exit_code' = code
    /\ err' = why

\* parse_args: argparse rejects a target outside `choices` with status 2
ValidChoice(t) == t \in Choices

ParseArgs ==
    /\ mode = "run" /\ pc = "parse_args"
    /\ IF ValidChoice(target)
       THEN pc' = "list_displays" /\ UNCHANGED <<exit_code, err>>
       ELSE Exit(2, "usage")
    /\ UNCHANGED <<mode, target, displays, display_settings, i, checks,
                   max_contrast, cmds, call>>

NoDisplaysNegative(num_displays) == num_displays < 0

\* main: `if num_displays < 1`
NoDisplays(num_displays) == num_displays < 1

\* main: displays = m1ddc.list_displays(), and the check of their number
ListDisplays ==
    /\ mode = "run" /\ pc = "list_displays"
    /\ \E resp \in {None, Text}, raw \in RawOutputs :
          LET found == list_displays(resp, raw)
              shown == IF Failed(resp) THEN <<>> ELSE raw
          IN  /\ cmds' = Append(cmds, [Cmd("list", <<>>, "", 0, resp, "list_displays")
                                        EXCEPT !.out = shown])
              /\ displays' = found
              /\ IF NoDisplays(Len(found))
                 THEN Exit(1, "no_displays")
                 ELSE pc' = "determine_display_settings"
                      /\ UNCHANGED <<exit_code, err>>
    /\ UNCHANGED <<mode, target, display_settings, i, checks, max_contrast, call>>

\* determine_display_settings: `if machine not in MACHINE_CONFS`
Recognised(machine) == machine \in DOMAIN MACHINE_CONFS

\* main: display_settings = determine_display_settings(target_machine)
DetermineDisplaySettings ==
    /\ mode = "run" /\ pc = "determine_display_settings"
    /\ IF Recognised(target)
       THEN /\ display_settings' = MACHINE_CONFS[target]
            /\ pc' = "set_display_input"
            /\ i' = 1
            /\ UNCHANGED <<exit_code, err>>
       ELSE /\ Exit(1, "unrecognised_machine")
            /\ UNCHANGED <<display_settings, i>>
    /\ UNCHANGED <<mode, target, displays, checks, max_contrast, cmds, call>>

\* the display the i-th iteration of a `for display in displays` loop visits
LoopDisplay(ds, k) == ds[k]

\* set_display_input: one iteration of the loop; the value set_input returns
\* is dropped
SetDisplayInput ==
    /\ mode = "run" /\ pc = "set_display_input"
    /\ \E resp \in AckResponses :
          LET o == set_input(LoopDisplay(displays, i).id, display_settings.input,
                             resp, "set_display_input")
          IN  cmds' = cmds \o o.issued
    /\ IF i < Len(displays)
       THEN i' = i + 1 /\ UNCHANGED <<pc, checks, max_contrast>>
       ELSE /\ pc' = "check_display_readiness"
            /\ i' = 1
            /\ checks' = 0
            /\ max_contrast' = 0
    /\ UNCHANGED <<mode, target, displays, display_settings, exit_code, err, call>>

ReadinessDisplayLast(ds) == ds[Len(ds)].id

\* main: check_display_readiness(m1ddc, displays[0]["id"])
ReadinessDisplay(ds) == ds[1].id

TimedOutNever(c) == FALSE

TimedOutEarly(c) == c >= MaxChecks

TimedOutLate(c) == c > MaxChecks + 1

\* check_display_readiness: `if checks > 10`
TimedOut(c) == c > MaxChecks

\* check_display_readiness: `while max_contrast == 0`
NotReady(mc) == mc = 0

\* check_display_readiness: one iteration of the while loop
CheckDisplayReadiness ==
    /\ mode = "run" /\ pc = "check_display_readiness"
    /\ NotReady(max_contrast)
    /\ \E resp \in RunMaxResponses :
          LET m == _get_max(ReadinessDisplay(displays), "contrast", resp,
                            "check_display_readiness")
          IN  /\ cmds' = Append(cmds, m.cmd)
              /\ IF m.value.err # "none"
                 THEN Exit(1, m.value.err) /\ UNCHANGED <<checks, max_contrast>>
                 ELSE /\ max_contrast' = m.value.n
                      /\ checks' = checks + 1
                      /\ IF TimedOut(checks')
                         THEN Exit(1, "timeout")
                         ELSE IF NotReady(max_contrast')
                              THEN UNCHANGED <<pc, exit_code, err>>
                              ELSE pc' = "set_display_contrast"
                                   /\ UNCHANGED <<exit_code, err>>
    /\ UNCHANGED <<mode, target, displays, display_settings, i, call>>

\* set_display_contrast: one iteration of the loop; the exception
\* set_contrast raises is not caught
SetDisplayContrast ==
    /\ mode = "run" /\ pc = "set_display_contrast"
    /\ \E maxresp \in RunMaxResponses, setresp \in AckResponses :
          LET o == set_contrast(LoopDisplay(displays, i).id,
                                display_settings.contrast, maxresp, setresp,
                                "set_display_contrast")
          IN  /\ cmds' = cmds \o o.issued
              /\ IF o.result # "returned"
                 THEN Exit(1, o.result) /\ UNCHANGED i
                 ELSE IF i < Len(displays)
                      THEN i' = i + 1 /\ UNCHANGED <<pc, exit_code, err>>
                      ELSE Exit(0, "none") /\ UNCHANGED i
    /\ UNCHANGED <<mode, target, displays, display_settings, checks,
                   max_contrast, call>>

\* swap_targets: for each display, get_input (its value dropped), then the
\* branch on display["input"]; the display records list_displays builds
\* have the keys number, name and id
RECURSIVE swap_targets(_, _, _, _)
swap_targets(ds, getresps, setresps, by) ==
    IF ds = <<>> THEN Outcome(<<>>, "returned")
    ELSE LET display == Head(ds)
             g == _get(display.id, "input", Head(getresps), by)
             rest == swap_targets(Tail(ds), Tail(getresps), Tail(setresps), by)
         IN  IF "input" \notin DOMAIN display
             THEN Outcome(<<g.cmd>>, "KeyError")
             ELSE IF display.input = INPUTS.hdmi
             THEN Outcome(<<g.cmd>>
                          \o set_input(display.id, INPUTS.usbc, Head(setresps), by).issued
                          \o rest.issued, rest.result)
             ELSE IF display.input = INPUTS.usbc
             THEN Outcome(<<g.cmd>>
                          \o set_input(display.id, INPUTS.hdmi, Head(setresps), by).issued
                          \o rest.issued, rest.result)
             ELSE Outcome(<<g.cmd>>, "unrecognised_input")

----------------------------------------------------------------------------
(* Direct use of the library: each action is one call, `cmds` holds the     *)
(* invocations that call made and `call` its arguments and outcome.  The    *)
(* library keeps no state between calls (self.ddpath apart), so what a call *)
(* does is what it does as the first call.                                  *)

NoCall == [fn |-> "none", display |-> <<>>, value |-> 0, state |-> FALSE, result |-> "none"]

ApiIdle == mode = "api" /\ call = NoCall

ApiValues == -1 .. MaxValue + 1
ApiDeltas == -MaxValue .. MaxValue
ApiResponses == {None, Text} \cup {Num(v) : v \in 0 .. MaxValue}
InputResponses == {None, Text, Num(INPUTS.hdmi), Num(INPUTS.usbc)}

\* `value` is the call's integer argument, `state` set_mute's boolean one
CalledWith(fn, display, value, state, o) ==
    /\ call' = [fn |-> fn, display |-> display, value |-> value, state |-> state,
                result |-> o.result]
    /\ cmds' = o.issued
    /\ UNCHANGED <<mode, pc, target, displays, display_settings, i, checks,
                   max_contrast, exit_code, err>>

Called(fn, display, value, o) == CalledWith(fn, display, value, FALSE, o)

CallSetLuminance ==
    /\ ApiIdle
    /\ \E d \in DisplayIds, v \in ApiValues, mr \in ApiResponses, sr \in AckResponses :
           Called("set_luminance", d, v, set_luminance(d, v, mr, sr, "api"))

CallSetContrast ==
    /\ ApiIdle
    /\ \E d \in DisplayIds, v \in ApiValues, mr \in ApiResponses, sr \in AckResponses :
           Called("set_contrast", d, v, set_contrast(d, v, mr, sr, "api"))

CallSetVolume ==
    /\ ApiIdle
    /\ \E d \in DisplayIds, v \in ApiValues, mr \in ApiResponses, sr \in AckResponses :
           Called("set_volume", d, v, set_volume(d, v, mr, sr, "api"))

CallChangeLuminance ==
    /\ ApiIdle
    /\ \E d \in DisplayIds, v \in ApiDeltas, gr \in ApiResponses, mr \in ApiResponses,
          cr \in AckResponses :
           Called("change_luminance", d, v, change_luminance(d, v, gr, mr, cr, "api"))

CallChangeContrast ==
    /\ ApiIdle
    /\ \E d \in DisplayIds, v \in ApiDeltas, gr \in ApiResponses, mr \in ApiResponses,
          cr \in AckResponses :
           Called("change_contrast", d, v, change_contrast(d, v, gr, mr, cr, "api"))

CallChangeVolume ==
    /\ ApiIdle
    /\ \E d \in DisplayIds, v \in ApiDeltas, gr \in ApiResponses, mr \in ApiResponses,
          cr \in AckResponses :
           Called("change_volume", d, v, change_volume(d, v, gr, mr, cr, "api"))

\* values handed to set_input: the known input codes and any other integer
InputValues == {INPUTS.hdmi, INPUTS.usbc} \cup ApiValues

CallSetInput ==
    /\ ApiIdle
    /\ \E d \in DisplayIds, v \in InputValues, sr \in AckResponses :
           Called("set_input", d, v, set_input(d, v, sr, "api"))

CallSetMute ==
    /\ ApiIdle
    /\ \E d \in DisplayIds, b \in BOOLEAN, sr \in AckResponses :
           CalledWith("set_mute", d, 0, b, set_mute(d, b, sr, "api"))

\* list_displays called directly; `displays` holds the list it returned
CallListDisplays ==
    /\ ApiIdle
    /\ \E resp \in {None, Text}, raw \in ListOutputs :
           /\ call' = [fn |-> "list_displays", display |-> <<>>, value |-> 0,
                       state |-> FALSE, result |-> "returned"]
           /\ cmds' = <<[Cmd("list", <<>>, "", 0, resp, "api")
                            EXCEPT !.out = IF Failed(resp) THEN <<>> ELSE raw]>>
           /\ displays' = list_displays(resp, raw)
    /\ UNCHANGED <<mode, pc, target, display_settings, i, checks, max_contrast,
                   exit_code, err>>

CallSwapTargets ==
    /\ ApiIdle
    /\ \E raw \in RawOutputs :
           LET ds == list_displays(Text, raw)
           IN  /\ ds # <<>>
               /\ \E grs \in [1 .. Len(ds) -> InputResponses],
                     srs \in [1 .. Len(ds) -> AckResponses] :
                      Called("swap_targets", ds[1].id, 0, swap_targets(ds, grs, srs, "api"))

----------------------------------------------------------------------------
(* Specification *)

Init ==
    /\ mode \in {"run", "api"}
    /\ pc = IF mode = "run" THEN "parse_args" ELSE "api"
    /\ target \in (IF mode = "run" THEN Targets ELSE {"work"})
    /\ displays = <<>>
    /\ display_settings = [input |-> 0, contrast |-> 0]
    /\ i = 1
    /\ checks = 0
    /\ max_contrast = 0
    /\ cmds = <<>>
    /\ exit_code = -1
    /\ err = "none"
    /\ call = NoCall

Next ==
    \/ ParseArgs
    \/ ListDisplays
    \/ DetermineDisplaySettings
    \/ SetDisplayInput
    \/ CheckDisplayReadiness
    \/ SetDisplayContrast
    \/ CallSetLuminance
    \/ CallSetContrast
    \/ CallSetVolume
    \/ CallChangeLuminance
    \/ CallChangeContrast
    \/ CallChangeVolume
    \/ CallSetInput
    \/ CallSetMute
    \/ CallListDisplays
    \/ CallSwapTargets

Spec == Init /\ [][Next]_vars

\* The script is one sequential process and every utility invocation
\* returns: a run that can take a step takes it.
FairSpec == Spec /\ WF_vars(Next)

----------------------------------------------------------------------------
(* Reading the history *)

\* the command line of an invocation, as the utility receives it
Line(verb, disp, prop, val) == [verb |-> verb, disp |-> disp, prop |-> prop, val |-> val]
LineOf(c) == Line(c.verb, c.disp, c.prop, c.val)
LinesOf(cs) == [j \in 1 .. Len(cs) |-> LineOf(cs[j])]

IssuedBy(by) == SelectSeq(cmds, LAMBDA c : c.by = by)
Polls == IssuedBy("check_display_readiness")
Sets(prop) == SelectSeq(cmds, LAMBDA c : c.verb = "set" /\ c.prop = prop)

\* the displays the utility listed: the matching lines of its output
Listed == IF cmds # <<>> /\ cmds[1].verb = "list"
          THEN SelectSeq(cmds[1].out, LAMBDA l : l.m)
          ELSE <<>>

Finished == mode = "run" /\ pc = "done"

\* every invocation exited zero and every `max` printed a number
AllSucceeded ==
    \A j \in 1 .. Len(cmds) :
        /\ ~Failed(cmds[j].resp)
        /\ cmds[j].verb = "max" => cmds[j].resp.k = "num"

\* the first non-zero answer to a readiness poll is the k-th
FirstNonZeroAt(k) ==
    /\ Len(Polls) >= k
    /\ Polls[k].resp.k = "num" /\ Polls[k].resp.n # 0
    /\ \A j \in 1 .. k - 1 : Polls[j].resp = Num(0)

ReadyWithinCeiling == \E k \in 1 .. MaxChecks : FirstNonZeroAt(k)

ProfileRun ==
    /\ Finished
    /\ target \in DOMAIN MACHINE_CONFS
    /\ Len(Listed) >= 1
    /\ AllSucceeded
    /\ ReadyWithinCeiling

ExpList == <<Line("list", <<>>, "", 0)>>
ExpInputs ==
    [j \in 1 .. Len(Listed) |->
        Line("set", Listed[j].id, "input", MACHINE_CONFS[target].input)]
ExpPolls == [j \in 1 .. Len(Polls) |-> Line("max", Listed[1].id, "contrast", 0)]
ExpSetContrast ==
    [j \in 1 .. Len(Listed) |->
        Line("set", Listed[j].id, "contrast", MACHINE_CONFS[target].contrast)]
ExpBoundedSetContrast ==
    [j \in 1 .. 2 * Len(Listed) |->
        IF j % 2 = 1
        THEN Line("max", Listed[(j + 1) \div 2].id, "contrast", 0)
        ELSE ExpSetContrast[j \div 2]]

\* every display answered set_contrast's bound query with a maximum that
\* admits the profile's contrast
ContrastAdmitted ==
    \A j \in 1 .. Len(cmds) :
        cmds[j].by = "set_display_contrast" /\ cmds[j].verb = "max"
            => cmds[j].resp.n >= MACHINE_CONFS[target].contrast

----------------------------------------------------------------------------
(* Claims *)

\* C1 as stated: in a profile run (recognised target, at least one display,
\* every utility call succeeding, ready within the ceiling) the set commands
\* and readiness polls reach the utility as: set input per display in list
\* order, polls to the first display, set contrast per display in list
\* order; and the run ends with exit code 0.
C1_AsStated ==
    ProfileRun =>
        /\ exit_code = 0
        /\ LinesOf(SelectSeq(cmds, LAMBDA c : c.verb = "set"
                                              \/ c.by = "check_display_readiness"))
             = ExpInputs \o ExpPolls \o ExpSetContrast

\* C1 amended: when in addition every display reports a maximum contrast of
\* at least the profile's contrast, the utility receives exactly: display
\* list; set input per display in list order; the readiness polls, all to
\* the first display, of which only the last returned non-zero; then per
\* display in list order the bound query max contrast followed by set
\* contrast; and the run ends with exit code 0.
C1_ProfileRunOrder ==
    ProfileRun /\ ContrastAdmitted =>
        /\ exit_code = 0
        /\ LinesOf(cmds) = ExpList \o ExpInputs \o ExpPolls \o ExpBoundedSetContrast
        /\ FirstNonZeroAt(Len(Polls))

C1_Witness ==
    /\ ProfileRun /\ ContrastAdmitted
    /\ Len(Listed) = 2 /\ Listed[1].id # Listed[2].id
    /\ Len(Polls) = 3

\* the run has left the readiness poll for the apply-contrast step
ProceededToContrast ==
    \/ pc = "set_display_contrast"
    \/ pc = "done" /\ IssuedBy("set_display_contrast") # <<>>

\* C2: when the first non-zero answer to the readiness poll is the k-th, for
\* any k up to the ceiling of 10, exactly k polls are issued and the run
\* has proceeded to the apply-contrast step.
C2_PollStopsAtFirstNonZero ==
    mode = "run" =>
        \A k \in 1 .. MaxChecks :
            FirstNonZeroAt(k) =>
                /\ Len(Polls) = k
                /\ ProceededToContrast
                /\ err # "timeout"

C2_Witness ==
    /\ mode = "run"
    /\ FirstNonZeroAt(MaxChecks)
    /\ pc = "set_display_contrast"

\* the first n readiness polls all returned 0
ZeroPolls(n) ==
    /\ Len(Polls) >= n
    /\ \A j \in 1 .. n : Polls[j].resp = Num(0)

\* every readiness poll printed a number
PollsAnswered == \A j \in 1 .. Len(Polls) : Polls[j].resp.k = "num"

\* C3: when the readiness polls return 0 up to the ceiling of 10, the run
\* never reaches the apply-contrast step and issues no further set input or
\* set contrast; it ends with a non-zero exit right after its last poll,
\* which is the readiness timeout whenever that poll was answered.
C3_TimeoutStopsMutation ==
    mode = "run" /\ ZeroPolls(MaxChecks) =>
        /\ pc \in {"check_display_readiness", "done"}
        /\ IssuedBy("set_display_contrast") = <<>>
        /\ Sets("contrast") = <<>>
        /\ cmds[Len(cmds)].by = "check_display_readiness"
        /\ Len(Sets("input")) = Len(Listed)
        /\ pc = "done" => exit_code # 0
        /\ pc = "done" /\ PollsAnswered => err = "timeout" /\ exit_code = 1

C3_Witness ==
    /\ Finished
    /\ ZeroPolls(MaxChecks + 1)
    /\ err = "timeout"

\* C4 as stated: a run issues at most 10 readiness polls.
C4_AsStated == Len(Polls) <= MaxChecks

\* C4 amended: a run issues at most 11 readiness polls; the timeout is
\* reported by the 11th poll and by no earlier one.
C4_AtMostElevenPolls ==
    mode = "run" =>
        /\ Len(Polls) <= MaxChecks + 1
        /\ err = "timeout" => Len(Polls) = MaxChecks + 1
        /\ pc = "check_display_readiness" => checks = Len(Polls) /\ checks <= MaxChecks

C4_Witness ==
    /\ Finished
    /\ Len(Polls) = MaxChecks + 1
    /\ err = "timeout"
    /\ Polls[MaxChecks + 1].resp # Num(0)

\* C5: in a finished run whose target is swap and that listed at least one
\* display, the first display's input was read, and the run ended either
\* normally or with the unrecognised-input error.
C5_SwapReadsAndToggles ==
    Finished /\ target = "swap" /\ Len(Listed) >= 1 =>
        /\ \E j \in 1 .. Len(cmds) :
               LineOf(cmds[j]) = Line("get", Listed[1].id, "input", 0)
        /\ err \in {"none", "unrecognised_input"}

\* the property a bounded set function queries and sets
BoundedProperty ==
    [set_luminance |-> "luminance", set_contrast |-> "contrast", set_volume |-> "volume"]

\* C6: set_luminance, set_contrast and set_volume first query the property's
\* maximum; given a maximum, they fail with the out-of-range error exactly
\* when value < 0 or value > max, issuing no set command then and exactly
\* one `set <property> <value>` otherwise.
C6_SetBoundedRange ==
    mode = "api" /\ call.fn \in DOMAIN BoundedProperty =>
        LET prop == BoundedProperty[call.fn]
            max == cmds[1].resp
        IN  /\ LineOf(cmds[1]) = Line("max", call.display, prop, 0)
            /\ max.k = "num" =>
                  /\ call.result = "OutOfRange" <=> (call.value < 0 \/ call.value > max.n)
                  /\ call.result = "OutOfRange" => Len(cmds) = 1
                  /\ call.result # "OutOfRange" =>
                        /\ call.result = "returned"
                        /\ LinesOf(cmds) = <<Line("max", call.display, prop, 0),
                                             Line("set", call.display, prop, call.value)>>
            /\ max.k # "num" => call.result \notin {"OutOfRange", "returned"} /\ Len(cmds) = 1

C6_Witness ==
    /\ mode = "api" /\ call.fn = "set_luminance"
    /\ cmds[1].resp = Num(call.value)
    /\ call.value > 0
    /\ call.result = "returned"

\* the property a change function reads and adjusts
ChangedProperty ==
    [change_luminance |-> "luminance", change_contrast |-> "contrast",
     change_volume |-> "volume"]

\* C7: change_luminance, change_contrast and change_volume read the current
\* value and the maximum; when current + delta is outside [0, max] they
\* return without raising and issue no command, and otherwise they return
\* having issued exactly one `chg <property> <delta>` and no set.
C7_ChangeRelative ==
    mode = "api" /\ call.fn \in DOMAIN ChangedProperty
                 /\ Len(cmds) >= 2 /\ cmds[1].resp.k = "num" /\ cmds[2].resp.k = "num" =>
        LET prop == ChangedProperty[call.fn]
            sum == cmds[1].resp.n + call.value
        IN  IF sum < 0 \/ sum > cmds[2].resp.n
            THEN call.result = "logged" /\ Len(cmds) = 2
            ELSE /\ call.result = "returned"
                 /\ LinesOf(cmds) = <<Line("get", call.display, prop, 0),
                                      Line("max", call.display, prop, 0),
                                      Line("chg", call.display, prop, call.value)>>

\* the utility's `display list` yielded no display: it failed, or no line of
\* its output matched
ZeroListed ==
    /\ mode = "run" /\ cmds # <<>> /\ cmds[1].verb = "list"
    /\ \/ Failed(cmds[1].resp)
       \/ \A j \in 1 .. Len(cmds[1].out) : ~cmds[1].out[j].m

\* C8: when the display listing yields zero displays, the run has ended
\* with a non-zero exit and `display list` is the only command it issued.
C8_NoDisplaysNoCommands ==
    ZeroListed =>
        /\ pc = "done"
        /\ exit_code # 0
        /\ err = "no_displays"
        /\ Len(cmds) = 1

C8_Witness ==
    /\ ZeroListed
    /\ ~Failed(cmds[1].resp)
    /\ Len(cmds[1].out) = MaxLines

\* the invocations of the run that exited non-zero
FailedCmds == SelectSeq(cmds, LAMBDA c : Failed(c.resp))

\* C9 as stated: a run ends with exit code 0 only if no set input or set
\* contrast invocation in it failed.
C9_AsStated ==
    Finished /\ exit_code = 0 =>
        \A j \in 1 .. Len(FailedCmds) : FailedCmds[j].verb # "set"

\* C9 amended: a failed invocation is printed and handed to the caller as
\* None, not raised.  A failed `display list` or `max contrast` ends the
\* run with a non-zero exit; a failed set input or set contrast is ignored:
\* the run goes on to the next command and can end with exit code 0.
C9_FailedSetIgnored ==
    mode = "run" =>
        /\ Finished /\ exit_code = 0 =>
              \A j \in 1 .. Len(FailedCmds) : FailedCmds[j].verb = "set"
        /\ \A j \in 1 .. Len(cmds) :
              Failed(cmds[j].resp) /\ cmds[j].verb # "set" =>
                  j = Len(cmds) /\ pc = "done" /\ exit_code = 1
        /\ cmds # <<>> /\ Failed(cmds[Len(cmds)].resp) /\ cmds[Len(cmds)].verb = "set" =>
              exit_code \in {-1, 0}

C9_Witness ==
    /\ Finished /\ exit_code = 0
    /\ \E j \in 1 .. Len(FailedCmds) : FailedCmds[j].prop = "input"
    /\ \E j \in 1 .. Len(FailedCmds) : FailedCmds[j].prop = "contrast"

\* C10: a finished run whose target is not a machine profile ended with a
\* non-zero exit without having issued any command, `display list` included.
C10_ResolveBeforeEnumerate ==
    Finished /\ target \notin DOMAIN MACHINE_CONFS =>
        /\ exit_code # 0
        /\ cmds = <<>>

\* C11: a readiness poll that yields no usable value (the utility failed or
\* printed no number) counts as not ready: right after it the run is still
\* polling, or has ended with the readiness timeout.
C11_UnusablePollRetries ==
    mode = "run" /\ Polls # <<>> /\ Polls[Len(Polls)].resp.k # "num" =>
        \/ pc = "check_display_readiness"
        \/ Finished /\ err = "timeout"

\* C12: a run whose target is swap issues no max contrast query and no set
\* contrast command; neither does swap_targets.
C12_SwapNoPollNoContrast ==
    (mode = "run" /\ target = "swap") \/ (mode = "api" /\ call.fn = "swap_targets")
    => \A j \in 1 .. Len(cmds) : cmds[j].verb # "max" /\ cmds[j].prop # "contrast"

C12_Witness ==
    /\ Finished /\ target = "swap"
    /\ Len(Listed) = 2
    /\ Len(cmds) = 1

\* C15: a run ends with the readiness timeout only if every readiness poll
\* it issued returned 0.
C15_TimeoutOnlyAllZero ==
    Finished /\ err = "timeout" =>
        \A j \in 1 .. Len(Polls) : Polls[j].resp = Num(0)

\* the bound queries set_display_contrast has caused so far, one per display
\* it has reached
ContrastMaxes ==
    SelectSeq(IssuedBy("set_display_contrast"), LAMBDA c : c.verb = "max")

\* C16: the apply-contrast step visits the displays in list order, and when
\* the maximum contrast a display reports is below the profile's contrast
\* the run ends there with a failure: that bound query is the last command,
\* no set contrast reaches that display or a later one, and the displays
\* before it have each received their set contrast.
C16_OutOfRangeStopsRun ==
    mode = "run" =>
        /\ \A j \in 1 .. Len(ContrastMaxes) : ContrastMaxes[j].disp = Listed[j].id
        /\ \A j \in 1 .. Len(ContrastMaxes) :
              ContrastMaxes[j].resp.k = "num"
              /\ ContrastMaxes[j].resp.n < MACHINE_CONFS[target].contrast =>
                  /\ j = Len(ContrastMaxes)
                  /\ cmds[Len(cmds)] = ContrastMaxes[j]
                  /\ Finished /\ exit_code = 1 /\ err = "OutOfRange"
                  /\ LinesOf(Sets("contrast")) = SubSeq(ExpSetContrast, 1, j - 1)

C16_Witness ==
    /\ Finished /\ err = "OutOfRange"
    /\ Len(ContrastMaxes) = 2
    /\ ContrastMaxes[2].resp = Num(50)
    /\ Listed[1].id # Listed[2].id

\* C13: set_input and set_mute apply no bound check: for any value they issue
\* exactly one set command and no max query, and return; set_mute sends the
\* token on for true and off for false.
C13_UnboundedSet ==
    /\ mode = "api" /\ call.fn = "set_input" =>
          /\ call.result = "returned"
          /\ LinesOf(cmds) = <<Line("set", call.display, "input", call.value)>>
    /\ mode = "api" /\ call.fn = "set_mute" =>
          /\ call.result = "returned"
          /\ Len(cmds) = 1
          /\ cmds[1].verb = "set" /\ cmds[1].disp = call.display
          /\ cmds[1].prop = "mute"
          /\ call.state => cmds[1].tok = "on"
          /\ ~call.state => cmds[1].tok = "off"

C13_Witness ==
    /\ mode = "api" /\ call.fn = "set_mute"
    /\ ~call.state
    /\ cmds[1].tok = "off"

\* the display records the listed lines stand for
ListedRecords ==
    [j \in 1 .. Len(Listed) |->
        [number |-> Listed[j].number, name |-> Listed[j].name, id |-> Listed[j].id]]

\* C14: list_displays returns one record per display line of the output, in
\* the order of the lines, with the number as an integer and the name and
\* id as printed; other lines are dropped and change nothing about the
\* records of the lines around them; output without a display line, and a
\* failed command, give the empty sequence and no failure.
C14_ListDisplaysParse ==
    cmds # <<>> /\ cmds[1].verb = "list" =>
        /\ displays = ListedRecords
        /\ mode = "api" => call.fn = "list_displays" /\ call.result = "returned"

C14_Witness ==
    /\ mode = "api" /\ call.fn = "list_displays"
    /\ Len(cmds[1].out) = 2
    /\ ~cmds[1].out[1].m /\ cmds[1].out[1].text # <<>>
    /\ cmds[1].out[2].m /\ Head(cmds[1].out[2].text) = " "
    /\ Len(displays) = 1 /\ displays[1].number = 10

\* C17: every run terminates after a bounded number of utility invocations:
\* at most display list, one set input per display, the readiness polls up
\* to the attempt ceiling, and a bound query and a set contrast per display.
C17_RunTerminates ==
    /\ [](mode = "run" => Len(cmds) <= 1 + 3 * Len(Listed) + MaxChecks)
    /\ <>(mode = "run" => pc = "done")

C17_Witness ==
    /\ Finished /\ exit_code = 0
    /\ Len(Listed) = 2
    /\ Len(cmds) = 1 + 3 * Len(Listed) + MaxChecks

====
